---- MODULE Spec2Model ----
(***************************************************************************)
(* Virtual Energy Trading backend: the bid book (bid_service.py behind     *)
(* api/bidding.py), the market clearing pass (clearing_service.py behind   *)
(* api/clearing.py), the contract ledger's status requests                 *)
(* (api/contracts.py), the PnL calculation (pnl_service.py behind          *)
(* api/pnl.py) and the price table's writers (market_data_service.py       *)
(* behind api/market_data.py), over the persistent tables Bid, Contract,   *)
(* MarketData and PnLRecord.                                               *)
(*                                                                         *)
(* Every endpoint is an `async def` whose body only makes synchronous      *)
(* calls, and main.py starts one uvicorn process: a request handler runs   *)
(* to completion on the event loop before the next one starts.  A request  *)
(* is therefore one atomic step over the committed tables; the clearing    *)
(* pass is additionally unfolded into the iterations of its matching loop  *)
(* (the session's uncommitted objects are the variable sess), during which *)
(* no other request is served.                                             *)
(*                                                                         *)
(* Decimal quantities and prices are integers (a fixed number of the       *)
(* smallest unit).  A datetime is a number of hours, date = hours \div 24. *)
(* Optional values are sequences: <<>> is None, <<v>> is the value v.      *)
(***************************************************************************)
EXTENDS Integers, Sequences, FiniteSets, TLC

VARIABLES
    bids,       \* table Bid: id -> row (committed)
    contracts,  \* table Contract: sequence of rows, id = index (committed)
    quotes,     \* table MarketData: set of rows (committed)
    pnl,        \* table PnLRecord: sequence of rows, id = index (committed)
    tz,         \* the server's local-time offset from UTC, in hours
    sess,       \* the clearing request in progress: its session's objects
    result,     \* the response to the last request
    nreq        \* number of requests served

vars == <<bids, contracts, quotes, pnl, tz, sess, result, nreq>>

----------------------------------------------------------------------------
(* Bounds of the model *)

MaxReq == 2            \* requests served in one behaviour
MaxDay == 2            \* calendar days 1..MaxDay
MaxSeedOther == 1      \* seeded EXECUTED / REJECTED rows in the bid book model
MaxTargetId == 2       \* bid ids 0..MaxTargetId are named by update and delete requests
MaxMatchBids == 3      \* rows of the Bid table in the clearing model

(* Program constants *)

QuotaLimit == 10       \* bid_service.py:28  len(existing_bids) >= 10
CutoffHour == 11       \* bid_service.py:36  current_time.hour >= 11
MinHour == 0           \* schemas/bid.py:9   ge=0
MaxHour == 23          \* schemas/bid.py:9   le=23

None == <<>>
Some(v) == <<v>>

Days == 1..MaxDay
Users == {"u1", "u2"}
BidTypes == {"BUY", "SELL"}
BidStatuses == {"PENDING", "EXECUTED", "REJECTED"}

(* Wall-clock instants (UTC hours since day 0) at which requests arrive:   *)
(* 03:00 and 11:00 of the last day.                                        *)
Times == {MaxDay * 24 + 3, MaxDay * 24 + CutoffHour}
TzOffsets == {0 - 5, 0}
(* The instant at which the daily clearing is requested *)
MatchTime == MaxDay * 24 + CutoffHour

UtcDate(t) == t \div 24
UtcHour(t) == t % 24
(* datetime.now().date(): the naive local date *)
LocalDate(t, off) == (t + off) \div 24

----------------------------------------------------------------------------
(* Attribute resolution.  Python resolves an attribute name when the       *)
(* expression is evaluated; a name the class does not define raises        *)
(* AttributeError there.                                                   *)

BidCreateFields == {"hour", "bid_type", "quantity", "price", "user_id"}
MarketDataFields == {"id", "date", "hour", "data_type", "price", "timestamp", "source"}
HasAttr(fields, name) == name \in fields

----------------------------------------------------------------------------
(* Responses *)

Resp(op, code, detail, req, t) ==
    [op |-> op, code |-> code, detail |-> detail, req |-> req, at |-> t,
     n |-> nreq + 1, contracts_created |-> 0, total_bids_processed |-> 0]

ClearResp(code, detail, req, t, n, created, total) ==
    [op |-> "clear", code |-> code, detail |-> detail, req |-> req, at |-> t,
     n |-> n, contracts_created |-> created, total_bids_processed |-> total]

NoResult == [op |-> "none", code |-> 0, detail |-> "", req |-> <<>>, at |-> 0, n |-> 0,
             contracts_created |-> 0, total_bids_processed |-> 0]
NoSess == [pc |-> "idle"]
Idle == sess.pc = "idle" /\ nreq < MaxReq

----------------------------------------------------------------------------
(* Bid book: schemas/bid.py, models/bid.py, services/bid_service.py,       *)
(* api/bidding.py                                                          *)

BidCreateValidHourLe24(r) ==
    /\ r.hour >= MinHour /\ r.hour <= MaxHour + 1
    /\ r.quantity > 0
    /\ r.price > 0

(* BidCreate: the request body's constraints, enforced before the handler *)
BidCreateValid(r) ==
    /\ r.hour >= MinHour /\ r.hour <= MaxHour
    /\ r.quantity > 0
    /\ r.price > 0

(* BidUpdate: both fields optional, each > 0 when given *)
BidUpdateValid(u) ==
    /\ (u.quantity # None => u.quantity[1] > 0)
    /\ (u.price # None => u.price[1] > 0)

(* Bid._validate_bid, run by Bid.__init__ *)
ValidateBid(b) ==
    /\ ~(b.hour < 0 \/ b.hour > 23)
    /\ ~(b.quantity <= 0)
    /\ ~(b.price <= 0)

(* create_bid's quota query: PENDING rows of (user, hour, today in UTC) *)
ExistingBids(r, t) ==
    {i \in DOMAIN bids :
        /\ bids[i].user_id = r.user_id
        /\ bids[i].hour = r.hour
        /\ bids[i].bid_date = UtcDate(t)
        /\ bids[i].status = "PENDING"}

QuotaReachedOffByOne(n) == n > QuotaLimit
QuotaReached(n) == n >= QuotaLimit

MarketClosed(t) == UtcHour(t) >= CutoffHour

NewBidReadingBidType(r, t) ==
    <<TRUE, [hour |-> r.hour, bid_type |-> r.bid_type,
             quantity |-> r.quantity, price |-> r.price,
             user_id |-> r.user_id, bid_date |-> LocalDate(t, tz),
             status |-> "PENDING", timestamp |-> t,
             execution_price |-> None, execution_time |-> None]>>

(* The Bid(...) expression of create_bid: its argument bid_data.type is    *)
(* evaluated first.  <<TRUE, row>> or <<FALSE, error text>>.               *)
NewBid(r, t) ==
    IF ~HasAttr(BidCreateFields, "type")
    THEN <<FALSE, "'BidCreate' object has no attribute 'type'">>
    ELSE LET b == [hour |-> r.hour, bid_type |-> r.bid_type,
                   quantity |-> r.quantity, price |-> r.price,
                   user_id |-> r.user_id, bid_date |-> LocalDate(t, tz),
                   status |-> "PENDING", timestamp |-> t,
                   execution_price |-> None, execution_time |-> None]
         IN IF ValidateBid(b) THEN <<TRUE, b>> ELSE <<FALSE, "ValueError">>

FreshBidId == IF DOMAIN bids = {} THEN 1
              ELSE 1 + CHOOSE m \in DOMAIN bids : \A i \in DOMAIN bids : i <= m

(* POST /api/bids/ *)
CreateBid(r, t) ==
    /\ Idle
    /\ nreq' = nreq + 1
    /\ UNCHANGED <<contracts, quotes, pnl, tz, sess>>
    /\ IF ~BidCreateValid(r)
       THEN /\ result' = Resp("create", 422, "validation", r, t)
            /\ UNCHANGED bids
       ELSE IF QuotaReached(Cardinality(ExistingBids(r, t)))
       THEN /\ result' = Resp("create", 400, "Maximum 10 bids per hour exceeded", r, t)
            /\ UNCHANGED bids
       ELSE IF MarketClosed(t)
       THEN /\ result' = Resp("create", 400, "Market is closed. Bidding closes at 11:00 AM", r, t)
            /\ UNCHANGED bids
       ELSE LET nb == NewBid(r, t) IN
            IF nb[1]
            THEN /\ bids' = [i \in DOMAIN bids \cup {FreshBidId} |->
                                IF i \in DOMAIN bids THEN bids[i] ELSE nb[2]]
                 /\ result' = Resp("create", 201, "", r, t)
            ELSE /\ result' = Resp("create", 500, nb[2], r, t)
                 /\ UNCHANGED bids

(* PUT /api/bids/{bid_id} *)
UpdatePermittedUnlessExecuted(b) == b.status # "EXECUTED"
UpdatePermitted(b) == b.status = "PENDING"

UpdateBid(id, u) ==
    /\ Idle
    /\ nreq' = nreq + 1
    /\ UNCHANGED <<contracts, quotes, pnl, tz, sess>>
    /\ LET req == [id |-> id, quantity |-> u.quantity, price |-> u.price] IN
       IF ~BidUpdateValid(u)
       THEN /\ result' = Resp("update", 422, "validation", req, 0)
            /\ UNCHANGED bids
       ELSE IF id \notin DOMAIN bids
       THEN /\ result' = Resp("update", 404, "Bid not found", req, 0)
            /\ UNCHANGED bids
       ELSE IF ~UpdatePermitted(bids[id])
       THEN /\ result' = Resp("update", 400, "Cannot update non-pending bid", req, 0)
            /\ UNCHANGED bids
       ELSE /\ bids' = [bids EXCEPT
                          ![id].quantity = IF u.quantity # None THEN u.quantity[1] ELSE @,
                          ![id].price = IF u.price # None THEN u.price[1] ELSE @]
            /\ result' = Resp("update", 200, "", req, 0)

(* DELETE /api/bids/{bid_id} *)
DeletePermittedAlways(b) == TRUE
DeletePermitted(b) == b.status = "PENDING"

DeleteBid(id) ==
    /\ Idle
    /\ nreq' = nreq + 1
    /\ UNCHANGED <<contracts, quotes, pnl, tz, sess>>
    /\ LET req == [id |-> id] IN
       IF id \notin DOMAIN bids
       THEN /\ result' = Resp("delete", 404, "Bid not found", req, 0)
            /\ UNCHANGED bids
       ELSE IF ~DeletePermitted(bids[id])
       THEN /\ result' = Resp("delete", 400, "Cannot delete non-pending bid", req, 0)
            /\ UNCHANGED bids
       ELSE /\ bids' = [i \in DOMAIN bids \ {id} |-> bids[i]]
            /\ result' = Resp("delete", 204, "", req, 0)

----------------------------------------------------------------------------
(* Market clearing: services/clearing_service.py, api/clearing.py          *)

(* pending_bids: PENDING rows of target_date, in row (id) order *)
PendingBids(target_date) ==
    {i \in DOMAIN bids :
        bids[i].bid_date = target_date /\ bids[i].status = "PENDING"}

(* The reference-price query of clear_market as written: rows of the date  *)
(* and kind whose hour equals the hour of ANY row of table Bid (the        *)
(* condition names the column Bid.hour, not a bid), and .first() of them:  *)
(* None when there is none, else one of them (no ORDER BY).                *)
DaPriceLookup(target_date) ==
    LET rows == {q \in quotes :
                    /\ q.date = target_date
                    /\ q.data_type = "DAY_AHEAD"
                    /\ \E i \in DOMAIN bids : q.hour = bids[i].hour}
    IN IF rows = {} THEN {None} ELSE {Some(q) : q \in rows}

(* list.sort(key=price) and list.sort(key=price, reverse=True): stable,    *)
(* rows of equal price keep the query's order.                             *)
RECURSIVE SortByPrice(_, _, _)
SortByPrice(ids, row, descending) ==
    IF ids = {} THEN <<>>
    ELSE LET first == CHOOSE a \in ids : \A b \in ids \ {a} :
                          \/ (IF descending THEN row[a].price > row[b].price
                                            ELSE row[a].price < row[b].price)
                          \/ (row[a].price = row[b].price /\ a < b)
         IN <<first>> \o SortByPrice(ids \ {first}, row, descending)

PricesMatchAlways(buy, sell) == TRUE
PricesMatchStrictly(buy, sell) == buy.price > sell.price

(* buy_price >= sell_price *)
PricesMatch(buy, sell) == buy.price >= sell.price

TradeQuantityOfBuy(buy, sell) == buy.quantity

(* trade_quantity *)
TradeQuantity(buy, sell) ==
    IF buy.quantity <= sell.quantity THEN buy.quantity ELSE sell.quantity

NewContract(bid_id, bid, side, quantity, execution_price, target_date, t) ==
    [bid_id |-> bid_id, user_id |-> bid.user_id, hour |-> bid.hour,
     contract_type |-> side, quantity |-> quantity,
     execution_price |-> execution_price,
     execution_date |-> target_date * 24, execution_time |-> t,
     status |-> "ACTIVE"]

(* What one match does to a bid's session object: status, execution       *)
(* fields, then the remaining quantity.                                    *)
MatchedBid(bid, trade_quantity, execution_price, t) ==
    LET executed == [bid EXCEPT !.status = "EXECUTED",
                                !.execution_price = Some(execution_price),
                                !.execution_time = Some(t)]
        reduced == [executed EXCEPT !.quantity = @ - trade_quantity]
    IN IF reduced.quantity <= 0 THEN [reduced EXCEPT !.status = "EXECUTED"]
       ELSE reduced

(* clear_market from its first statement to the start of the loop, given   *)
(* the row da_price the reference-price query returned.                    *)
ClearBegin(target_date, da_price, t) ==
    LET pending == PendingBids(target_date)
        buy_ids == {i \in pending : bids[i].bid_type = "BUY"}
        sell_ids == {i \in pending : bids[i].bid_type = "SELL"}
    IN /\ nreq' = nreq + 1
       /\ UNCHANGED <<bids, contracts, quotes, pnl, tz>>
       /\ IF pending = {}
          THEN /\ result' = ClearResp(200, "No pending bids to clear",
                                      [date |-> target_date], t, nreq + 1, 0, 0)
               /\ UNCHANGED sess
          ELSE /\ sess' = [pc |-> "loop", date |-> target_date, at |-> t,
                           da_price |-> da_price,
                           obj |-> [i \in pending |-> bids[i]],
                           buy_bids |-> SortByPrice(buy_ids, bids, TRUE),
                           sell_bids |-> SortByPrice(sell_ids, bids, FALSE),
                           i |-> 1, j |-> 1,
                           added |-> <<>>, contracts_created |-> 0,
                           total |-> Cardinality(pending)]
               /\ UNCHANGED result

(* POST /api/clear/ as the repository has it: the reference-price query    *)
(* names MarketData.trade_date, and evaluating that expression raises      *)
(* before the query is run; the endpoint turns the exception into a 500.   *)
ClearMarket(target_date, t) ==
    /\ Idle
    /\ IF ~HasAttr(MarketDataFields, "trade_date")
       THEN /\ result' = ClearResp(500, "type object 'MarketData' has no attribute 'trade_date'",
                                   [date |-> target_date], t, nreq + 1, 0, 0)
            /\ nreq' = nreq + 1
            /\ UNCHANGED <<bids, contracts, quotes, pnl, tz, sess>>
       ELSE \E da_price \in DaPriceLookup(target_date) :
                ClearBegin(target_date, da_price, t)

(* The same request with the date column of MarketData answering to the    *)
(* name trade_date, as every service of the repository calls it.           *)
ClearLoad(target_date, t) ==
    /\ Idle
    /\ \E da_price \in DaPriceLookup(target_date) :
           ClearBegin(target_date, da_price, t)

LoopDone == sess.i > Len(sess.buy_bids)

MatchableAlways(bid) == TRUE

(* The loop's test of a bid object before it is matched: the negation of   *)
(* `status != BidStatus.PENDING: continue`.                                 *)
Matchable(bid) == bid.status = "PENDING"

(* One iteration of the inner loop (or the step to the next buy bid) *)
ClearIter ==
    /\ sess.pc = "loop"
    /\ ~LoopDone
    /\ UNCHANGED <<bids, contracts, quotes, pnl, tz, nreq>>
    /\ LET b == sess.buy_bids[sess.i]
           buy_bid == sess.obj[b]
       IN IF ~Matchable(buy_bid) \/ sess.j > Len(sess.sell_bids)
          THEN /\ sess' = [sess EXCEPT !.i = @ + 1, !.j = 1]
               /\ UNCHANGED result
          ELSE LET s == sess.sell_bids[sess.j]
                   sell_bid == sess.obj[s]
               IN IF ~Matchable(sell_bid) \/ ~PricesMatch(buy_bid, sell_bid)
                  THEN /\ sess' = [sess EXCEPT !.j = @ + 1]
                       /\ UNCHANGED result
                  ELSE IF sess.da_price = None
                  THEN \* da_price.price on None: the exception leaves the
                       \* handler, nothing was committed
                       /\ sess' = NoSess
                       /\ result' = ClearResp(500, "'NoneType' object has no attribute 'price'",
                                              [date |-> sess.date], sess.at, nreq, 0, 0)
                  ELSE LET execution_price == sess.da_price[1].price
                           trade_quantity == TradeQuantity(buy_bid, sell_bid)
                           buy_contract == NewContract(b, buy_bid, "BUY", trade_quantity,
                                                       execution_price, sess.date, sess.at)
                           sell_contract == NewContract(s, sell_bid, "SELL", trade_quantity,
                                                        execution_price, sess.date, sess.at)
                       IN /\ sess' = [sess EXCEPT
                                 !.obj = [@ EXCEPT
                                     ![b] = MatchedBid(buy_bid, trade_quantity, execution_price, sess.at),
                                     ![s] = MatchedBid(sell_bid, trade_quantity, execution_price, sess.at)],
                                 !.added = @ \o <<buy_contract, sell_contract>>,
                                 !.contracts_created = @ + 2,
                                 !.i = @ + 1, !.j = 1]
                          /\ UNCHANGED result

ClearCommitBidsOnly ==
    /\ sess.pc = "loop"
    /\ LoopDone
    /\ bids' = [i \in DOMAIN bids |-> IF i \in DOMAIN sess.obj THEN sess.obj[i] ELSE bids[i]]
    /\ result' = ClearResp(200, "Market cleared", [date |-> sess.date], sess.at, nreq,
                           sess.contracts_created, sess.total)
    /\ sess' = NoSess
    /\ UNCHANGED <<contracts, quotes, pnl, tz, nreq>>

ClearCommitOverwriting ==
    /\ sess.pc = "loop"
    /\ LoopDone
    /\ bids' = [i \in DOMAIN bids |-> IF i \in DOMAIN sess.obj THEN sess.obj[i] ELSE bids[i]]
    /\ contracts' = sess.added
    /\ result' = ClearResp(200, "Market cleared", [date |-> sess.date], sess.at, nreq,
                           sess.contracts_created, sess.total)
    /\ sess' = NoSess
    /\ UNCHANGED <<quotes, pnl, tz, nreq>>

(* self.db.commit() and the response *)
ClearCommit ==
    /\ sess.pc = "loop"
    /\ LoopDone
    /\ bids' = [i \in DOMAIN bids |-> IF i \in DOMAIN sess.obj THEN sess.obj[i] ELSE bids[i]]
    /\ contracts' = contracts \o sess.added
    /\ result' = ClearResp(200, "Market cleared", [date |-> sess.date], sess.at, nreq,
                           sess.contracts_created, sess.total)
    /\ sess' = NoSess
    /\ UNCHANGED <<quotes, pnl, tz, nreq>>

----------------------------------------------------------------------------
(* Requests *)

ValidCreate(u, ty) ==
    [hour |-> 0, bid_type |-> ty, quantity |-> 2, price |-> 3, user_id |-> u]
CreateInputs ==
    UNION {{ValidCreate(u, "BUY"), ValidCreate(u, "SELL"),
            [ValidCreate(u, "BUY") EXCEPT !.hour = 0 - 1],
            [ValidCreate(u, "BUY") EXCEPT !.hour = 24],
            [ValidCreate(u, "BUY") EXCEPT !.quantity = 0],
            [ValidCreate(u, "BUY") EXCEPT !.price = 0]} : u \in Users}
UpdateInputs == [quantity : {None, Some(0), Some(3)}, price : {None, Some(4)}]
BidIdInputs == 0..MaxTargetId

----------------------------------------------------------------------------
(* The bid book over a store that already holds rows.  The tables outlive  *)
(* the process (DATABASE_URL, create_all only adds missing tables), and no *)
(* code path writes status REJECTED: the rows a run starts from are drawn  *)
(* from the rows the Bid model admits, within the per-key limit.           *)

SeedRow(status, d) ==
    [hour |-> 0, bid_type |-> "BUY", quantity |-> 2, price |-> 3,
     user_id |-> "u1", bid_date |-> d, status |-> status, timestamp |-> d * 24,
     execution_price |-> IF status = "EXECUTED" THEN Some(5) ELSE None,
     execution_time |-> IF status = "EXECUTED" THEN Some(d * 24 + CutoffHour) ELSE None]

SeedBook(ne, nr, np, d) ==
    [i \in 1..(ne + nr + np) |->
        SeedRow(IF i <= ne THEN "EXECUTED"
                ELSE IF i <= ne + nr THEN "REJECTED" ELSE "PENDING", d)]

SeedQuotes == {[date |-> d, hour |-> h, data_type |-> "DAY_AHEAD", price |-> 5 + h] :
                  d \in {1}, h \in {0, 1}}

Init ==
    /\ bids \in {SeedBook(ne, nr, np, d) :
                    ne \in 0..MaxSeedOther, nr \in 0..MaxSeedOther,
                    np \in {QuotaLimit}, d \in {MaxDay - 1, MaxDay}}
    /\ contracts = <<>>
    /\ quotes = SeedQuotes
    /\ pnl = <<>>
    /\ tz \in TzOffsets
    /\ sess = NoSess
    /\ result = NoResult
    /\ nreq = 0

Next ==
    \/ \E r \in CreateInputs, t \in Times : CreateBid(r, t)
    \/ \E id \in BidIdInputs, u \in UpdateInputs : UpdateBid(id, u)
    \/ \E id \in BidIdInputs : DeleteBid(id)
    \/ \E d \in Days : ClearMarket(d, MatchTime)

Spec == Init /\ [][Next]_vars

----------------------------------------------------------------------------
(* The clearing pass over small books of PENDING bids of day 1. *)

MatchHours == {0, 1}
MatchQtys == {1, 2}
MatchPrices == {1, 2}
MatchUser(i) == IF i % 2 = 1 THEN "u1" ELSE "u2"

MatchRow(i, h, ty, q, p) ==
    [hour |-> h, bid_type |-> ty, quantity |-> q, price |-> p,
     user_id |-> MatchUser(i), bid_date |-> 1, status |-> "PENDING",
     timestamp |-> 24, execution_price |-> None, execution_time |-> None]

MatchBooks ==
    {f \in [1..MaxMatchBids -> [hour : MatchHours, bid_type : BidTypes,
                                quantity : MatchQtys, price : MatchPrices]] :
        f[1].bid_type = "BUY" /\ f[1].hour = 0}

InitClearing ==
    /\ \E f \in MatchBooks :
          bids = [i \in 1..MaxMatchBids |->
                     MatchRow(i, f[i].hour, f[i].bid_type, f[i].quantity, f[i].price)]
    /\ contracts = <<>>
    /\ quotes \in {{}, SeedQuotes}
    /\ pnl = <<>>
    /\ tz = 0
    /\ sess = NoSess
    /\ result = NoResult
    /\ nreq = 0

NextClearing ==
    \/ \E d \in Days : ClearLoad(d, MatchTime)
    \/ ClearIter
    \/ ClearCommit

SpecClearing == InitClearing /\ [][NextClearing]_vars

----------------------------------------------------------------------------
(* Settlement: services/pnl_service.py behind api/pnl.py, and the price    *)
(* table's writers, services/market_data_service.py behind                 *)
(* api/market_data.py                                                      *)

ContractStatuses == {"ACTIVE", "COMPLETED", "CANCELLED"}
MarketDataTypes == {"DAY_AHEAD", "REAL_TIME"}

PnlResp(op, code, detail, req, body) ==
    [op |-> op, code |-> code, detail |-> detail, req |-> req, at |-> 0,
     n |-> nreq + 1, contracts_created |-> 0, total_bids_processed |-> 0,
     body |-> body]

TradeDateError == "type object 'MarketData' has no attribute 'trade_date'"

(* select(MarketData).where(date, hour, data_type).first().  The writers  *)
(* keep at most one row per (date, hour, kind).                            *)
FirstQuote(target_date, hour, data_type) ==
    LET rows == {q \in quotes : /\ q.date = target_date
                                /\ q.hour = hour
                                /\ q.data_type = data_type}
    IN IF rows = {} THEN None ELSE Some(CHOOSE q \in rows : TRUE)

(* calculate_pnl's contract query: the user's ACTIVE and COMPLETED         *)
(* contracts whose execution_date lies within target_date                  *)
UserContracts(user_id, target_date) ==
    {k \in 1..Len(contracts) :
        /\ contracts[k].user_id = user_id
        /\ contracts[k].execution_date >= target_date * 24
        /\ contracts[k].execution_date <= target_date * 24 + 23
        /\ contracts[k].status \in {"ACTIVE", "COMPLETED"}}

(* pnl_amount *)
PnlAmount(contract, day_ahead_price, real_time_price) ==
    IF contract.contract_type = "BUY"
    THEN (real_time_price - day_ahead_price) * contract.quantity
    ELSE (day_ahead_price - real_time_price) * contract.quantity

PnlTypeAlwaysUnrealized(contract) == "UNREALIZED"

(* pnl_type *)
PnlType(contract) ==
    IF contract.status = "COMPLETED" THEN "REALIZED" ELSE "UNREALIZED"

NewPnlRecord(user_id, k, target_date, day_ahead_price, real_time_price) ==
    [user_id |-> user_id, contract_id |-> k, date |-> target_date,
     hour |-> contracts[k].hour,
     day_ahead_price |-> day_ahead_price, real_time_price |-> real_time_price,
     quantity |-> contracts[k].quantity,
     pnl_amount |-> PnlAmount(contracts[k], day_ahead_price, real_time_price),
     pnl_type |-> PnlType(contracts[k])]

(* The loop of calculate_pnl over the queried contracts from row k on:     *)
(* the records of the contracts that have both prices, in row order.       *)
RECURSIVE PnlRecords(_, _, _)
PnlRecords(k, user_id, target_date) ==
    IF k > Len(contracts) THEN <<>>
    ELSE LET day_ahead_data == FirstQuote(target_date, contracts[k].hour, "DAY_AHEAD")
             real_time_data == FirstQuote(target_date, contracts[k].hour, "REAL_TIME")
             rest == PnlRecords(k + 1, user_id, target_date)
         IN IF k \notin UserContracts(user_id, target_date) THEN rest
            ELSE IF day_ahead_data = None THEN rest
            ELSE IF real_time_data = None THEN rest
            ELSE <<NewPnlRecord(user_id, k, target_date,
                                day_ahead_data[1].price, real_time_data[1].price)>> \o rest

(* calculate_pnl from its loop to its return: the records are added and    *)
(* committed together.                                                     *)
CalculateStore(req, user_id, target_date) ==
    LET pnl_records == PnlRecords(1, user_id, target_date) IN
    /\ pnl' = pnl \o pnl_records
    /\ result' = PnlResp("calculate", 200, "", req,
                         [records_created |-> Len(pnl_records)])

(* POST /api/pnl/calculate/.  With no contract of the user on the date the *)
(* service returns [] before any price query; otherwise the first price    *)
(* query names MarketData.trade_date, which raises.                        *)
CalculatePnl(user_id, target_date) ==
    /\ Idle
    /\ nreq' = nreq + 1
    /\ UNCHANGED <<bids, contracts, quotes, tz, sess>>
    /\ LET req == [user_id |-> user_id, date |-> target_date] IN
       IF UserContracts(user_id, target_date) = {}
       THEN /\ result' = PnlResp("calculate", 200, "", req, [records_created |-> 0])
            /\ UNCHANGED pnl
       ELSE IF ~HasAttr(MarketDataFields, "trade_date")
       THEN /\ result' = PnlResp("calculate", 500, TradeDateError, req, [records_created |-> 0])
            /\ UNCHANGED pnl
       ELSE CalculateStore(req, user_id, target_date)

(* The same request with the date column of MarketData answering to the    *)
(* name trade_date.                                                        *)
CalculatePnlByDate(user_id, target_date) ==
    /\ Idle
    /\ nreq' = nreq + 1
    /\ UNCHANGED <<bids, contracts, quotes, tz, sess>>
    /\ LET req == [user_id |-> user_id, date |-> target_date] IN
       IF UserContracts(user_id, target_date) = {}
       THEN /\ result' = PnlResp("calculate", 200, "", req, [records_created |-> 0])
            /\ UNCHANGED pnl
       ELSE CalculateStore(req, user_id, target_date)

ActiveContractsOfAnyDate(target_date) ==
    {k \in 1..Len(contracts) : contracts[k].status = "ACTIVE"}

(* active_contracts: the ACTIVE contracts whose execution_date lies within *)
(* target_date                                                             *)
ActiveContracts(target_date) ==
    {k \in 1..Len(contracts) :
        /\ contracts[k].status = "ACTIVE"
        /\ contracts[k].execution_date >= target_date * 24
        /\ contracts[k].execution_date <= target_date * 24 + 23}

(* complete_all_active_contracts (api/contracts.py; main.py does not       *)
(* include this router in the app)                                         *)
CompleteAllActive(target_date) ==
    /\ Idle
    /\ nreq' = nreq + 1
    /\ UNCHANGED <<bids, quotes, pnl, tz, sess>>
    /\ LET active_contracts == ActiveContracts(target_date)
       IN /\ contracts' = [k \in 1..Len(contracts) |->
                              IF k \in active_contracts
                              THEN [contracts[k] EXCEPT !.status = "COMPLETED"]
                              ELSE contracts[k]]
          /\ result' = PnlResp("complete_all", 200, "", [date |-> target_date],
                               [contracts_updated |-> Cardinality(active_contracts)])

(* update_contract_status: the row of that id, or 404; the status asked    *)
(* for is assigned and committed.                                          *)
UpdateContractStatus(contract_id, status) ==
    /\ Idle
    /\ nreq' = nreq + 1
    /\ UNCHANGED <<bids, quotes, pnl, tz, sess>>
    /\ LET req == [id |-> contract_id, status |-> status] IN
       IF contract_id \notin 1..Len(contracts)
       THEN /\ result' = PnlResp("update_status", 404, "Contract not found", req,
                                 [status |-> ""])
            /\ UNCHANGED contracts
       ELSE /\ contracts' = [contracts EXCEPT ![contract_id].status = status]
            /\ result' = PnlResp("update_status", 200, "", req, [status |-> status])

UserPnlOfAnyDate(user_id, target_date) ==
    {k \in 1..Len(pnl) : pnl[k].user_id = user_id}

(* get_user_pnl(user_id, target_date, target_date): the user's records     *)
(* whose date lies within target_date                                      *)
UserPnl(user_id, target_date) ==
    {k \in 1..Len(pnl) : pnl[k].user_id = user_id /\ pnl[k].date = target_date}

RECURSIVE SumOf(_, _)
SumOf(ks, val) ==
    IF ks = {} THEN 0
    ELSE LET k == CHOOSE x \in ks : TRUE IN val[k] + SumOf(ks \ {k}, val)

(* The structure returned when there are no records *)
ZeroSummary(target_date) ==
    [date |-> target_date, total_pnl |-> 0, realized_pnl |-> 0,
     unrealized_pnl |-> 0, total_volume |-> 0, records_count |-> 0]

(* get_pnl_summary *)
Summary(user_id, target_date) ==
    LET pnl_records == UserPnl(user_id, target_date)
        amount == [k \in 1..Len(pnl) |-> pnl[k].pnl_amount]
        volume == [k \in 1..Len(pnl) |-> pnl[k].quantity]
    IN IF pnl_records = {} THEN ZeroSummary(target_date)
       ELSE [date |-> target_date,
             total_pnl |-> SumOf(pnl_records, amount),
             realized_pnl |-> SumOf({k \in pnl_records : pnl[k].pnl_type = "REALIZED"}, amount),
             unrealized_pnl |-> SumOf({k \in pnl_records : pnl[k].pnl_type = "UNREALIZED"}, amount),
             total_volume |-> SumOf(pnl_records, volume),
             records_count |-> Cardinality(pnl_records),
             hourly_breakdown |-> [k \in pnl_records |->
                 [hour |-> pnl[k].hour, pnl |-> pnl[k].pnl_amount,
                  type |-> pnl[k].pnl_type,
                  day_ahead_price |-> pnl[k].day_ahead_price,
                  real_time_price |-> pnl[k].real_time_price]]]

(* GET /api/pnl/summary/{user_id} *)
PnlSummary(user_id, target_date) ==
    /\ Idle
    /\ nreq' = nreq + 1
    /\ UNCHANGED <<bids, contracts, quotes, pnl, tz, sess>>
    /\ result' = PnlResp("summary", 200, "", [user_id |-> user_id, date |-> target_date],
                         Summary(user_id, target_date))

(* Decimal.quantize(Decimal('0.01')) of n / d smallest units: to the       *)
(* nearest unit, a tie to the even one (the decimal context's default).    *)
Quantize(n, d) ==
    LET q == n \div d
        r == n % d
    IN IF 2 * r < d THEN q
       ELSE IF 2 * r > d THEN q + 1
       ELSE IF q % 2 = 0 THEN q ELSE q + 1

HoursOfDay == 0..23
(* base_price, in smallest units *)
BasePrice(hour) ==
    IF (6 <= hour /\ hour <= 9) \/ (17 <= hour /\ hour <= 21) THEN 6000 ELSE 3500
(* random.uniform(0.8, 1.2) and random.uniform(0.95, 1.05), in percent *)
GenerateVariations == {80, 100, 120}
UpdateVariations == {95, 100, 105}

(* The random draws of one call, one per hour: the draw of the hours of    *)
(* VariedHours ranges over the values, the other hours draw 1.0.           *)
VariedHours == {0}
Draws(values) ==
    {[hour \in HoursOfDay |-> IF hour \in VariedHours THEN v ELSE 100] : v \in values}

ExistingDataNever(target_date, data_type) == {}

ExistingData(target_date, data_type) ==
    {q \in quotes : q.date = target_date /\ q.data_type = data_type}

(* market_data: the 24 records of generate_mock_prices *)
MockPrices(target_date, data_type, variation) ==
    {[date |-> target_date, hour |-> hour, data_type |-> data_type,
      price |-> Quantize(BasePrice(hour) * variation[hour], 100)] :
        hour \in HoursOfDay}

(* generate_mock_prices after its query: the rows found, or 24 new rows    *)
GenerateRows(op, req, target_date, data_type) ==
    LET existing_data == ExistingData(target_date, data_type) IN
    IF existing_data # {}
    THEN /\ result' = PnlResp(op, 200, "", req,
                              [records |-> Cardinality(existing_data), rows |-> existing_data])
         /\ UNCHANGED quotes
    ELSE \E variation \in Draws(GenerateVariations) :
            LET market_data == MockPrices(target_date, data_type, variation)
            IN /\ quotes' = quotes \cup market_data
               /\ result' = PnlResp(op, 200, "", req,
                                    [records |-> Cardinality(market_data), rows |-> market_data])

(* update_real_time_prices after its query: generate when there is no row, *)
(* else every row found gets a new price                                   *)
UpdateRows(req, target_date) ==
    LET existing_data == ExistingData(target_date, "REAL_TIME") IN
    IF existing_data = {}
    THEN GenerateRows("update_realtime", req, target_date, "REAL_TIME")
    ELSE \E variation \in Draws(UpdateVariations) :
            LET updated == {[q EXCEPT !.price = Quantize(q.price * variation[q.hour], 100)] :
                               q \in existing_data}
            IN /\ quotes' = (quotes \ existing_data) \cup updated
               /\ result' = PnlResp("update_realtime", 200, "", req,
                                    [records |-> Cardinality(existing_data),
                                     rows |-> updated])

(* POST /api/market/generate.  The existence query names                   *)
(* MarketData.trade_date, which raises.                                    *)
GenerateMockPrices(target_date, data_type) ==
    /\ Idle
    /\ nreq' = nreq + 1
    /\ UNCHANGED <<bids, contracts, pnl, tz, sess>>
    /\ LET req == [date |-> target_date, data_type |-> data_type] IN
       IF ~HasAttr(MarketDataFields, "trade_date")
       THEN /\ result' = PnlResp("generate", 500, TradeDateError, req,
                                 [records |-> 0, rows |-> {}])
            /\ UNCHANGED quotes
       ELSE GenerateRows("generate", req, target_date, data_type)

(* POST /api/market/update-realtime/ *)
UpdateRealTimePrices(target_date) ==
    /\ Idle
    /\ nreq' = nreq + 1
    /\ UNCHANGED <<bids, contracts, pnl, tz, sess>>
    /\ LET req == [date |-> target_date, data_type |-> "REAL_TIME"] IN
       IF ~HasAttr(MarketDataFields, "trade_date")
       THEN /\ result' = PnlResp("update_realtime", 500, TradeDateError, req,
                                 [records |-> 0, rows |-> {}])
            /\ UNCHANGED quotes
       ELSE UpdateRows(req, target_date)

(* The two writers and GET /api/market/ with the date column of MarketData *)
(* answering to the name trade_date.                                       *)
GenerateMockPricesByDate(target_date, data_type) ==
    /\ Idle
    /\ nreq' = nreq + 1
    /\ UNCHANGED <<bids, contracts, pnl, tz, sess>>
    /\ GenerateRows("generate", [date |-> target_date, data_type |-> data_type],
                    target_date, data_type)

UpdateRealTimePricesByDate(target_date) ==
    /\ Idle
    /\ nreq' = nreq + 1
    /\ UNCHANGED <<bids, contracts, pnl, tz, sess>>
    /\ UpdateRows([date |-> target_date, data_type |-> "REAL_TIME"], target_date)

(* get_market_data_root for a given date: the prices of the date (of the   *)
(* kind, when one is given); when there is none, generate_mock_prices for  *)
(* DAY_AHEAD and then for REAL_TIME, each with its own existence query.    *)
MarketDataRootByDate(target_date, data_type) ==
    /\ Idle
    /\ nreq' = nreq + 1
    /\ UNCHANGED <<bids, contracts, pnl, tz, sess>>
    /\ LET req == [date |-> target_date, data_type |-> data_type]
           prices == {q \in quotes : /\ q.date = target_date
                                     /\ (data_type # None => q.data_type = data_type[1])}
       IN IF prices # {}
          THEN /\ result' = PnlResp("market_root", 200, "", req,
                                    [records |-> Cardinality(prices), rows |-> prices])
               /\ UNCHANGED quotes
          ELSE \E v1 \in Draws(GenerateVariations), v2 \in Draws(GenerateVariations) :
                  LET day_ahead_found == ExistingData(target_date, "DAY_AHEAD")
                      real_time_found == ExistingData(target_date, "REAL_TIME")
                      day_ahead_data == IF day_ahead_found # {} THEN day_ahead_found
                                        ELSE MockPrices(target_date, "DAY_AHEAD", v1)
                      real_time_data == IF real_time_found # {} THEN real_time_found
                                        ELSE MockPrices(target_date, "REAL_TIME", v2)
                  IN /\ quotes' = quotes \cup day_ahead_data \cup real_time_data
                     /\ result' = PnlResp("market_root", 200, "", req,
                                          [records |-> Cardinality(day_ahead_data)
                                                         + Cardinality(real_time_data),
                                           rows |-> day_ahead_data \cup real_time_data])

----------------------------------------------------------------------------
(* Settlement over a store that already holds contracts, prices and PnL    *)
(* records (no request of the application creates a contract while         *)
(* clear_market fails; the ledger a run starts from is drawn from the rows *)
(* the Contract and PnLRecord models admit).                               *)

SeedContract(user_id, side, hour, status) ==
    [bid_id |-> 0, user_id |-> user_id, hour |-> hour, contract_type |-> side,
     quantity |-> 10, execution_price |-> 40, execution_date |-> 24,
     execution_time |-> 24 + CutoffHour, status |-> status]

(* u1 bought and u2 sold 10 units of hour 0 of day 1; u1 also bought hour  *)
(* 1 and holds a cancelled contract.                                       *)
SeedLedger(status) ==
    <<SeedContract("u1", "BUY", 0, status), SeedContract("u2", "SELL", 0, status),
      SeedContract("u1", "BUY", 1, "ACTIVE"), SeedContract("u1", "SELL", 0, "CANCELLED")>>

(* Day 1: hour 0 has both prices (40 day-ahead, 50 real-time), hour 1 has  *)
(* the day-ahead price only.                                               *)
SettleQuotes ==
    {[date |-> 1, hour |-> 0, data_type |-> "DAY_AHEAD", price |-> 40],
     [date |-> 1, hour |-> 0, data_type |-> "REAL_TIME", price |-> 50],
     [date |-> 1, hour |-> 1, data_type |-> "DAY_AHEAD", price |-> 40]}

SeedPnl ==
    <<[user_id |-> "u1", contract_id |-> 1, date |-> 1, hour |-> 0,
       day_ahead_price |-> 40, real_time_price |-> 45, quantity |-> 10,
       pnl_amount |-> 50, pnl_type |-> "UNREALIZED"]>>

InitSettle ==
    /\ bids = <<>>
    /\ contracts \in {<<>>} \cup {SeedLedger(status) : status \in {"ACTIVE", "COMPLETED"}}
    /\ quotes = SettleQuotes
    /\ pnl \in {<<>>, SeedPnl}
    /\ tz = 0
    /\ sess = NoSess
    /\ result = NoResult
    /\ nreq = 0

NextSettle ==
    \/ \E u \in Users, d \in Days : CalculatePnl(u, d)
    \/ \E u \in Users, d \in Days : PnlSummary(u, d)
    \/ \E d \in Days, ty \in MarketDataTypes : GenerateMockPrices(d, ty)
    \/ \E d \in Days : UpdateRealTimePrices(d)

SpecSettle == InitSettle /\ [][NextSettle]_vars

(* The calculation over ledgers of ACTIVE or COMPLETED contracts, given    *)
(* the price rows its queries ask for.                                     *)
InitPnl ==
    /\ bids = <<>>
    /\ contracts \in {SeedLedger(status) : status \in {"ACTIVE", "COMPLETED"}}
    /\ quotes = SettleQuotes
    /\ pnl \in {<<>>, SeedPnl}
    /\ tz = 0
    /\ sess = NoSess
    /\ result = NoResult
    /\ nreq = 0

NextPnl ==
    \/ \E u \in Users, d \in Days : CalculatePnlByDate(u, d)
    \/ \E d \in Days : CompleteAllActive(d)
    \/ \E u \in Users, d \in Days : PnlSummary(u, d)

SpecPnl == InitPnl /\ [][NextPnl]_vars

(* The contract ledger under every request that reads or writes it: the    *)
(* bid book's requests, the clearing pass, the PnL calculation and the     *)
(* two status requests of api/contracts.py.  The ledger a run starts from  *)
(* also holds an ACTIVE contract of day 2; the bid book holds a crossing   *)
(* pair of PENDING bids of day 1.                                          *)
LedgerSeed(status) ==
    SeedLedger(status) \o
        <<[SeedContract("u2", "BUY", 0, "ACTIVE") EXCEPT !.execution_date = 48]>>

LedgerBids ==
    [i \in 1..2 |-> IF i = 1 THEN MatchRow(1, 0, "BUY", 2, 2)
                               ELSE MatchRow(2, 0, "SELL", 1, 1)]

ContractIdInputs == {0, 1, 3, 4}
LedgerCreateInputs == {ValidCreate("u1", "BUY")}
LedgerUpdateInputs == {[quantity |-> Some(3), price |-> None]}

InitLedger ==
    /\ bids = LedgerBids
    /\ contracts \in {LedgerSeed(status) : status \in {"ACTIVE", "COMPLETED"}}
    /\ quotes = SettleQuotes
    /\ pnl = <<>>
    /\ tz = 0
    /\ sess = NoSess
    /\ result = NoResult
    /\ nreq = 0

NextLedger ==
    \/ \E r \in LedgerCreateInputs, t \in Times : CreateBid(r, t)
    \/ \E id \in BidIdInputs, u \in LedgerUpdateInputs : UpdateBid(id, u)
    \/ \E id \in BidIdInputs : DeleteBid(id)
    \/ \E d \in Days : ClearLoad(d, MatchTime)
    \/ ClearIter
    \/ ClearCommit
    \/ \E u \in Users, d \in Days : CalculatePnlByDate(u, d)
    \/ \E d \in Days : CompleteAllActive(d)
    \/ \E id \in ContractIdInputs, status \in ContractStatuses :
           UpdateContractStatus(id, status)

SpecLedger == InitLedger /\ [][NextLedger]_vars

(* The price table under its writers, from an empty table or one that      *)
(* holds some hours of day 1.                                              *)
InitPrices ==
    /\ bids = <<>>
    /\ contracts = <<>>
    /\ quotes \in {{}, SettleQuotes}
    /\ pnl = <<>>
    /\ tz = 0
    /\ sess = NoSess
    /\ result = NoResult
    /\ nreq = 0

NextPrices ==
    \/ \E d \in Days, ty \in MarketDataTypes : GenerateMockPricesByDate(d, ty)
    \/ \E d \in Days : UpdateRealTimePricesByDate(d)
    \/ \E d \in Days, ty \in {None} \cup {Some(k) : k \in MarketDataTypes} :
           MarketDataRootByDate(d, ty)

SpecPrices == InitPrices /\ [][NextPrices]_vars

(* A clearing pass followed by PnL calculations, with both prices stored   *)
(* for every hour of day 1 (the day-ahead price of hour h is 5 + h, the    *)
(* real-time price 7 + 2h), over books of three PENDING bids of day 1: a   *)
(* buy bid of u1 for hour 0 and sell bids of u2 and u1.                    *)
FullQuotes ==
    {[date |-> 1, hour |-> h, data_type |-> kind,
      price |-> IF kind = "DAY_AHEAD" THEN 5 + h ELSE 7 + 2 * h] :
        h \in HoursOfDay, kind \in MarketDataTypes}

SettleBooks ==
    {[i \in 1..3 |-> IF i = 1 THEN MatchRow(1, 0, "BUY", q1, 2)
                     ELSE IF i = 2 THEN MatchRow(2, h2, "SELL", 1, p2)
                     ELSE MatchRow(3, h3, "SELL", 1, 1)] :
        q1 \in MatchQtys, h2 \in MatchHours, p2 \in MatchPrices, h3 \in MatchHours}

InitClearSettle ==
    /\ bids \in SettleBooks
    /\ contracts = <<>>
    /\ quotes = FullQuotes
    /\ pnl = <<>>
    /\ tz = 0
    /\ sess = NoSess
    /\ result = NoResult
    /\ nreq = 0

NextClearSettle ==
    \/ \E d \in Days : ClearLoad(d, MatchTime)
    \/ ClearIter
    \/ ClearCommit
    \/ \E u \in Users, d \in Days : CalculatePnlByDate(u, d)

SpecClearSettle == InitClearSettle /\ [][NextClearSettle]_vars

----------------------------------------------------------------------------
(* Properties *)

QuotaDetail == "Maximum 10 bids per hour exceeded"
ClosedDetail == "Market is closed. Bidding closes at 11:00 AM"

PendingOn(u, h, d) ==
    {i \in DOMAIN bids :
        /\ bids[i].user_id = u /\ bids[i].hour = h /\ bids[i].bid_date = d
        /\ bids[i].status = "PENDING"}

RowsOn(u, h, d) ==
    {i \in DOMAIN bids :
        bids[i].user_id = u /\ bids[i].hour = h /\ bids[i].bid_date = d}

(* This step serves a request of kind op *)
Served(op) == nreq' = nreq + 1 /\ result'.op = op

InRange(r) == r.hour \in 0..23 /\ r.quantity > 0 /\ r.price > 0

C2_QuotaCountsPendingOnly ==
    [][Served("create") /\ InRange(result'.req) =>
         LET r == result'.req
             n == Cardinality(PendingOn(r.user_id, r.hour, UtcDate(result'.at)))
         IN /\ n >= 10 => (/\ result'.code = 400
                           /\ result'.detail = QuotaDetail
                           /\ bids' = bids)
            /\ n < 10 => result'.detail # QuotaDetail]_vars

(* The 11th submit on a full key was refused. *)
C2_Witness ==
    /\ result.op = "create" /\ result.detail = QuotaDetail
    /\ Cardinality(PendingOn(result.req.user_id, result.req.hour, UtcDate(result.at))) = 10

(* A key with 10 rows, 9 of them PENDING, did not count as full. *)
C2_WitnessOtherStatus ==
    /\ result.op = "create" /\ InRange(result.req)
    /\ result.detail # QuotaDetail
    /\ Cardinality(PendingOn(result.req.user_id, result.req.hour, UtcDate(result.at))) = 9
    /\ Cardinality(RowsOn(result.req.user_id, result.req.hour, UtcDate(result.at))) >= 10

(* C3: a submit at or past the cutoff hour gets the market-closed error    *)
(* and leaves the bid table unchanged; a well-formed submit before the     *)
(* cutoff on a key below its quota adds exactly one row, in status         *)
(* PENDING.                                                                *)
C3_CutoffThenStore ==
    [][Served("create") /\ InRange(result'.req) =>
         LET r == result'.req
             t == result'.at
         IN /\ UtcHour(t) >= 11 => (result'.detail = ClosedDetail /\ bids' = bids)
            /\ (/\ UtcHour(t) < 11
                /\ Cardinality(PendingOn(r.user_id, r.hour, UtcDate(t))) < 10)
               => \E new \in DOMAIN bids' \ DOMAIN bids :
                     /\ DOMAIN bids' = DOMAIN bids \cup {new}
                     /\ \A i \in DOMAIN bids : bids'[i] = bids[i]
                     /\ bids'[new].status = "PENDING"]_vars

(* C3, the part on the cutoff alone, for keys below their quota *)
C3_ClosedAtCutoff ==
    [][(/\ Served("create") /\ InRange(result'.req)
        /\ UtcHour(result'.at) >= 11
        /\ Cardinality(PendingOn(result'.req.user_id, result'.req.hour,
                                 UtcDate(result'.at))) < 10)
       => (result'.detail = ClosedDetail /\ bids' = bids)]_vars

(* C4: a submit whose hour is outside 0..23, or whose quantity or price is *)
(* not positive, is refused as a validation error and stores nothing.      *)
C4_OutOfRangeRejected ==
    [][Served("create") /\ ~InRange(result'.req) =>
         (result'.code = 422 /\ bids' = bids)]_vars

C4_Witness ==
    /\ result.op = "create" /\ result.code = 422
    /\ result.req.hour = 24 /\ result.req.quantity > 0 /\ result.req.price > 0

(* C5: update and delete of a row that is not PENDING get the 400          *)
(* "non-pending" error and change nothing; a (well-formed) update of a     *)
(* PENDING row changes that row's quantity and price only, to the values   *)
(* given; delete of a PENDING row removes that row and no other.           *)
C5_OnlyPendingMutable ==
    [][(\/ Served("update") /\ BidUpdateValid(result'.req)
        \/ Served("delete")) /\ result'.req.id \in DOMAIN bids =>
         LET id == result'.req.id
             old == bids[id]
         IN IF old.status # "PENDING"
            THEN /\ result'.code = 400
                 /\ result'.detail = (IF result'.op = "update"
                                      THEN "Cannot update non-pending bid"
                                      ELSE "Cannot delete non-pending bid")
                 /\ bids' = bids
            ELSE IF result'.op = "update"
            THEN /\ DOMAIN bids' = DOMAIN bids
                 /\ \A i \in DOMAIN bids \ {id} : bids'[i] = bids[i]
                 /\ bids'[id] = [old EXCEPT
                        !.quantity = IF result'.req.quantity = None THEN @
                                     ELSE result'.req.quantity[1],
                        !.price = IF result'.req.price = None THEN @
                                  ELSE result'.req.price[1]]
            ELSE /\ DOMAIN bids' = DOMAIN bids \ {id}
                 /\ \A i \in DOMAIN bids' : bids'[i] = bids[i]]_vars

(* An update of a REJECTED row was refused. *)
C5_Witness ==
    /\ result.op = "update" /\ result.code = 400
    /\ result.req.id \in DOMAIN bids
    /\ bids[result.req.id].status = "REJECTED"

(* A PENDING row was updated in both fields; one was deleted. *)
C5_WitnessUpdated ==
    /\ result.op = "update" /\ result.code = 200
    /\ bids[result.req.id].quantity = 3 /\ bids[result.req.id].price = 4
C5_WitnessDeleted ==
    result.op = "delete" /\ result.code = 204 /\ result.req.id \notin DOMAIN bids

(* C6: a row in status EXECUTED stays in the table with the same status,   *)
(* quantity, price, execution price and execution time, whatever request   *)
(* is served.                                                              *)
C6_ExecutedImmutable ==
    [][\A i \in DOMAIN bids : bids[i].status = "EXECUTED" =>
          /\ i \in DOMAIN bids'
          /\ bids'[i].status = "EXECUTED"
          /\ bids'[i].quantity = bids[i].quantity
          /\ bids'[i].price = bids[i].price
          /\ bids'[i].execution_price = bids[i].execution_price
          /\ bids'[i].execution_time = bids[i].execution_time]_vars

(* A delete of an EXECUTED row was asked for, and the row is there. *)
C6_Witness ==
    /\ result.op = "delete" /\ result.code = 400
    /\ result.req.id \in DOMAIN bids
    /\ bids[result.req.id].status = "EXECUTED"

(* C7: a clear(date) served right after a clear(date) reports zero         *)
(* contracts created and leaves bids and contracts as they were.           *)
C7_SecondClearReportsZero ==
    [][(/\ result.op = "clear" /\ Served("clear")
        /\ result'.req = result.req)
       => (/\ result'.code = 200
           /\ result'.contracts_created = 0
           /\ bids' = bids /\ contracts' = contracts)]_vars

HasDayAheadQuote(d, h) ==
    \E q \in quotes : q.date = d /\ q.hour = h /\ q.data_type = "DAY_AHEAD"

ContractsOfBid(i) == {k \in 1..Len(contracts) : contracts[k].bid_id = i}

QuotePrice(d, h, kind) ==
    (CHOOSE q \in quotes : q.date = d /\ q.hour = h /\ q.data_type = kind).price
HasQuote(d, h, kind) ==
    \E q \in quotes : q.date = d /\ q.hour = h /\ q.data_type = kind

(* The contracts a calculation for (u, d) is to make an entry for: ACTIVE  *)
(* or COMPLETED, of u, executed on d, with both prices of their hour.      *)
Eligible(u, d) ==
    {k \in 1..Len(contracts) :
        /\ contracts[k].user_id = u
        /\ contracts[k].execution_date \div 24 = d
        /\ contracts[k].status \in {"ACTIVE", "COMPLETED"}
        /\ HasQuote(d, contracts[k].hour, "DAY_AHEAD")
        /\ HasQuote(d, contracts[k].hour, "REAL_TIME")}

(* The entries this step appended to the PnL table *)
NewEntries == {j \in 1..Len(pnl') : j > Len(pnl)}

(* C15: a calculation records, for every eligible contract, an entry whose *)
(* amount is (realTime - dayAhead) * quantity for a BUY contract and       *)
(* (dayAhead - realTime) * quantity for a SELL contract.                   *)
C15_AmountPerEligibleContract ==
    [][Served("calculate") =>
         LET u == result'.req.user_id
             d == result'.req.date
         IN \A k \in Eligible(u, d) :
               \E j \in NewEntries :
                  LET da == QuotePrice(d, contracts[k].hour, "DAY_AHEAD")
                      rt == QuotePrice(d, contracts[k].hour, "REAL_TIME")
                  IN /\ pnl'[j].contract_id = k
                     /\ pnl'[j].pnl_amount =
                           (IF contracts[k].contract_type = "BUY"
                            THEN (rt - da) * contracts[k].quantity
                            ELSE (da - rt) * contracts[k].quantity)]_vars

(* The ACTIVE or COMPLETED contracts of (u, d) that lack a price *)
MissingQuote(u, d) ==
    {k \in 1..Len(contracts) :
        /\ contracts[k].user_id = u
        /\ contracts[k].execution_date \div 24 = d
        /\ contracts[k].status \in {"ACTIVE", "COMPLETED"}
        /\ k \notin Eligible(u, d)}

(* C16: a calculation does not end in an error; every entry it adds is for *)
(* a contract that is ACTIVE or COMPLETED (never CANCELLED) and has both a *)
(* DAY_AHEAD and a REAL_TIME quote for its (date, hour); and when some     *)
(* contract of the owner lacks a quote, the owner's other eligible         *)
(* contracts still get their entries.                                      *)
C16_EntryOnlyWithBothQuotes ==
    [][Served("calculate") =>
         LET u == result'.req.user_id
             d == result'.req.date
         IN /\ result'.code = 200
            /\ \A j \in NewEntries : pnl'[j].contract_id \in Eligible(u, d)
            /\ MissingQuote(u, d) # {} =>
                  \A k \in Eligible(u, d) : \E j \in NewEntries : pnl'[j].contract_id = k]_vars

C17_WitnessUnrealized ==
    /\ nreq = 1 /\ result.op = "calculate" /\ result.body.records_created = 1
    /\ pnl[Len(pnl)].pnl_type = "UNREALIZED"
    /\ contracts[pnl[Len(pnl)].contract_id].status = "ACTIVE"

(* C18: no step changes or removes a stored PnL entry (whatever happens to *)
(* contracts and prices afterwards); a calculation appends exactly one     *)
(* entry for each eligible contract and nothing else.                      *)
C18_OneNewEntryPerEligibleContract ==
    [][/\ Len(pnl') >= Len(pnl)
       /\ \A j \in 1..Len(pnl) : pnl'[j] = pnl[j]
       /\ Served("calculate") =>
             LET u == result'.req.user_id
                 d == result'.req.date
             IN /\ \A k \in Eligible(u, d) :
                      Cardinality({j \in NewEntries : pnl'[j].contract_id = k}) = 1
                /\ Cardinality(NewEntries) = Cardinality(Eligible(u, d))]_vars

(* C19: a summary asked for an (owner, date) that has no PnL entry is      *)
(* answered 200 with total, realized and unrealized PnL and total volume   *)
(* all zero, and no table changes.                                         *)
C19_EmptySummaryIsZero ==
    [][(/\ Served("summary")
        /\ ~\E j \in 1..Len(pnl) : /\ pnl[j].user_id = result'.req.user_id
                                   /\ pnl[j].date = result'.req.date)
       => /\ result'.code = 200
          /\ result'.body.total_pnl = 0
          /\ result'.body.realized_pnl = 0
          /\ result'.body.unrealized_pnl = 0
          /\ result'.body.total_volume = 0
          /\ UNCHANGED <<bids, contracts, quotes, pnl>>]_vars

(* The zero summary was given for a date without entries to an owner who   *)
(* has an entry on another date and contracts that no pass has covered.    *)
C19_Witness ==
    /\ result.op = "summary" /\ result.code = 200
    /\ result.req.user_id = "u1" /\ result.req.date = 2
    /\ result.body.total_pnl = 0 /\ result.body.records_count = 0
    /\ pnl = SeedPnl /\ contracts # <<>>

QuotesOf(table, d, kind) == {q \in table : q.date = d /\ q.data_type = kind}

(* C20: a generate request succeeds; for a (date, kind) without quotes it  *)
(* stores 24 quotes, one per hour 0..23, and touches no other quote; for a *)
(* (date, kind) that has its 24 quotes it returns exactly those and the    *)
(* price table is unchanged.                                               *)
C20_GenerateIdempotent ==
    [][Served("generate") =>
         LET d == result'.req.date
             kind == result'.req.data_type
             before == QuotesOf(quotes, d, kind)
             after == QuotesOf(quotes', d, kind)
         IN /\ result'.code = 200
            /\ before = {} =>
                  /\ Cardinality(after) = 24
                  /\ \A h \in 0..23 : \E q \in after : q.hour = h
                  /\ quotes' \ after = quotes
            /\ Cardinality(before) = 24 =>
                  /\ quotes' = quotes
                  /\ result'.body.rows = before]_vars


(* This step serves a request of kind op from start to response (a         *)
(* clearing pass that has bids to match responds in a later step).         *)
Replied(op) == nreq' = nreq + 1 /\ result'.n = nreq' /\ result'.op = op

(* The contracts a completeAllActive(d) is to complete *)
ActiveOn(d) ==
    {k \in 1..Len(contracts) :
        contracts[k].status = "ACTIVE" /\ contracts[k].execution_date \div 24 = d}

(* C21: completeAllActive(date) sets to COMPLETED every contract that is   *)
(* ACTIVE with execution date on the date, reports how many it changed,    *)
(* and changes nothing else: every other contract row (CANCELLED,          *)
(* COMPLETED, of another date) and every other field of the changed rows   *)
(* stay as they were, as do bids, prices and PnL entries; when no contract *)
(* matches it reports 0 and the state is unchanged.                        *)
C21_CompleteAllActiveFrame ==
    [][Replied("complete_all") =>
         LET d == result'.req.date IN
         /\ result'.code = 200
         /\ Len(contracts') = Len(contracts)
         /\ \A k \in 1..Len(contracts) :
               contracts'[k] = (IF k \in ActiveOn(d)
                                THEN [contracts[k] EXCEPT !.status = "COMPLETED"]
                                ELSE contracts[k])
         /\ result'.body.contracts_updated = Cardinality(ActiveOn(d))
         /\ UNCHANGED <<bids, quotes, pnl>>
         /\ ActiveOn(d) = {} =>
               (contracts' = contracts /\ result'.body.contracts_updated = 0)]_vars

(* Day 1 was completed: three contracts changed, the CANCELLED contract of *)
(* day 1 and the ACTIVE contract of day 2 are as they were.                *)
C21_Witness ==
    /\ result.op = "complete_all" /\ result.req.date = 1
    /\ result.body.contracts_updated = 3
    /\ contracts[1].status = "COMPLETED" /\ contracts[3].status = "COMPLETED"
    /\ contracts[4].status = "CANCELLED"
    /\ contracts[5].status = "ACTIVE" /\ contracts[5].execution_date = 48

(* A date left without ACTIVE contracts was completed again: 0 reported. *)
C21_WitnessNone ==
    /\ result.op = "complete_all" /\ result.body.contracts_updated = 0
    /\ nreq = 2 /\ Len(contracts) = 5

(* C22: a contract's status only moves ACTIVE -> COMPLETED or ACTIVE ->    *)
(* CANCELLED, whatever request is served; updateStatus of a COMPLETED or   *)
(* CANCELLED contract to another status is refused with the state-conflict *)
(* error and changes nothing; updateStatus of an unknown id is answered    *)
(* not-found and changes nothing.                                          *)
C22_StatusTransitionsOnlyFromActive ==
    [][/\ \A k \in 1..Len(contracts) :
             (k <= Len(contracts') /\ contracts'[k].status # contracts[k].status)
                => (/\ contracts[k].status = "ACTIVE"
                    /\ contracts'[k].status \in {"COMPLETED", "CANCELLED"})
       /\ Replied("update_status") =>
             LET id == result'.req.id IN
             IF id \notin 1..Len(contracts)
             THEN result'.code = 404 /\ contracts' = contracts
             ELSE (/\ contracts[id].status \in {"COMPLETED", "CANCELLED"}
                   /\ result'.req.status # contracts[id].status)
                     => (result'.code \in {400, 409} /\ contracts' = contracts)]_vars

C24_WitnessNoCross ==
    /\ sess.pc = "idle" /\ result.op = "clear" /\ result.code = 200
    /\ result.contracts_created = 0 /\ result.total_bids_processed = 3
    /\ contracts = <<>>
    /\ \E i \in DOMAIN bids : bids[i].bid_type = "SELL"

ContractsOn(d, h, side) ==
    {k \in 1..Len(contracts) :
        /\ contracts[k].execution_date \div 24 = d
        /\ contracts[k].hour = h
        /\ contracts[k].contract_type = side}

EntriesOf(k) == {j \in 1..Len(pnl) : pnl[j].contract_id = k}
ContractsOfDate(d) == {k \in 1..Len(contracts) : contracts[k].execution_date \div 24 = d}

(* Date d is settled: it has contracts and every one of them has exactly   *)
(* one PnL entry, i.e. calculate has run once for each of their owners.    *)
Settled(d) ==
    /\ ContractsOfDate(d) # {}
    /\ \A k \in ContractsOfDate(d) : Cardinality(EntriesOf(k)) = 1

AmountOf(k) == pnl[CHOOSE j \in EntriesOf(k) : TRUE].pnl_amount

C29_WitnessUpdated ==
    /\ nreq = 2 /\ result.op = "update_realtime" /\ result.body.records = 24
    /\ Cardinality(QuotesOf(quotes, 2, "REAL_TIME")) = 24
    /\ \E q \in quotes : q.date = 2 /\ q.hour = 0 /\ q.data_type = "REAL_TIME"
                         /\ q.price # Quantize(BasePrice(0) * 100, 100)

(* C30: a clear(date) request leaves alone every bid that is not a PENDING *)
(* bid of the date (bids of other dates, EXECUTED and REJECTED bids),      *)
(* removes no bid, leaves every stored contract, every price and every PnL *)
(* entry as it was, and when the date has no PENDING bid it is answered    *)
(* 200 with 0 contracts created and changes nothing.                       *)
C30_ClearTouchesOnlyPendingOfDate ==
    [][(nreq' = nreq + 1 /\ result'.n = nreq' /\ result'.op = "clear") =>
         LET d == result'.req.date IN
         /\ DOMAIN bids' = DOMAIN bids
         /\ \A i \in DOMAIN bids :
               (bids[i].bid_date # d \/ bids[i].status # "PENDING") => bids'[i] = bids[i]
         /\ Len(contracts') >= Len(contracts)
         /\ \A k \in 1..Len(contracts) : contracts'[k] = contracts[k]
         /\ quotes' = quotes /\ pnl' = pnl
         /\ PendingBids(d) = {} =>
               /\ result'.code = 200 /\ result'.contracts_created = 0
               /\ bids' = bids /\ contracts' = contracts]_vars

====
